---- MODULE Spec2Model ----
(***************************************************************************)
(* BunyanFormattingLayer (src/src/formatting_layer.rs): the event-to-record *)
(* formatter and its emission to the sink obtained from make_writer.       *)
(*                                                                         *)
(* Bytes are abstracted to tokens: the serializer writes one token for the *)
(* opening brace, one per map entry, one for the closing brace, and emit   *)
(* appends one newline token.  The sink is the sequence of tokens that     *)
(* reached it.  A write_all call against the sink is one step of the sink  *)
(* (std::io::stdout, the sink of the doc example, holds its lock for the   *)
(* whole call); it either accepts the whole buffer or returns an error     *)
(* after having accepted a proper prefix of it.                            *)
(***************************************************************************)
EXTENDS Integers, Sequences, FiniteSets, TLC

VARIABLES
    sink,       \* tokens that reached the byte sink, in order
    notices,    \* keys reported through tracing::debug!, in order
    now,        \* the wall clock read by chrono::Utc::now()
    calls,      \* number of on_event invocations so far
    last,       \* what the last sequential on_event did
    pc,         \* per thread: position inside on_event
    pending,    \* per thread: write_all calls emit still has to issue
    started     \* per thread: number of on_event calls begun

vars == <<sink, notices, now, calls, last, pc, pending, started>>

----------------------------------------------------------------------------
(* Bounds of the model *)

MaxEvents == 2      \* sequential on_event calls in Spec
MaxClock == 1       \* clock readings 0..MaxClock
NThreads == 2       \* threads in SpecConc
MPerThread == 2     \* on_event calls per thread in SpecConc

----------------------------------------------------------------------------
(* JSON values (serde_json::Value) and output tokens *)

Str(s) == [t |-> "String", s |-> s, n |-> 0]
Num(n) == [t |-> "Number", s |-> "", n |-> n]
Null == [t |-> "Null", s |-> "", n |-> 0]

LBrace == [tok |-> "{", key |-> "", value |-> Null]
RBrace == [tok |-> "}", key |-> "", value |-> Null]
NL == [tok |-> "\n", key |-> "", value |-> Null]
Entry(k, v) == [tok |-> "entry", key |-> k, value |-> v]

\* All enumerations of a finite set (the iteration orders of a HashMap).
Orders(S) ==
    {o \in [1..Cardinality(S) -> S] : \A i, j \in DOMAIN o : i # j => o[i] # o[j]}

NoFields == [k \in {} |-> Null]

NoSpan == [active |-> FALSE, name |-> "", has_storage |-> FALSE, values |-> NoFields]
Span(name, has_storage, values) ==
    [active |-> TRUE, name |-> name, has_storage |-> has_storage, values |-> values]

----------------------------------------------------------------------------
(* The formatter *)

\* Faulty variant: "time" was left out of the reserved names.
RESERVED_FIELDS_without_time == {"msg", "level"}

RESERVED_FIELDS == {"msg", "level", "time"}

format_log_level(level) ==
    CASE level = "Error" -> "ERROR"
      [] level = "Warn" -> "WARN"
      [] level = "Info" -> "INFO"
      [] level = "Debug" -> "DEBUG"
      [] level = "Trace" -> "TRACE"

\* chrono's to_rfc3339 of the clock reading t (seconds since the epoch, t < 10).
to_rfc3339(t) == "1970-01-01T00:00:0" \o ToString(t) \o "+00:00"

\* The calls the format closure makes, in order.  serialize_map, serialize_entry
\* and end return a Result (the closure leaves through `?` on Err); debug does not.
SerializeMap == [op |-> "serialize_map", key |-> "", value |-> Null]
SerializeEntry(k, v) == [op |-> "serialize_entry", key |-> k, value |-> v]
Debug(k) == [op |-> "debug", key |-> k, value |-> Null]
End == [op |-> "end", key |-> "", value |-> Null]

serialize_bunyan_core_fields(message, level, time) ==
    << SerializeEntry("msg", Str(message)),
       SerializeEntry("level", Str(format_log_level(level))),
       SerializeEntry("time", Str(to_rfc3339(time))) >>

\* Faulty variant: the message field is used whatever its JSON type.
format_event_message_untyped(event) ==
    IF "message" \in DOMAIN event.values
    THEN event.values["message"].s
    ELSE event.target

format_event_message(event) ==
    IF "message" \in DOMAIN event.values /\ event.values["message"].t = "String"
    THEN event.values["message"].s
    ELSE event.target

\* Faulty variant: the event entry is written whether or not a span is active.
event_entry_always(span) == << SerializeEntry("event", Str(span.name)) >>

\* if let Some(span) = &current_span { serialize_entry("event", name) }
event_entry(span) ==
    IF span.active THEN << SerializeEntry("event", Str(span.name)) >> ELSE << >>

metadata_entries(event) ==
    << SerializeEntry("target", Str(event.target)),
       SerializeEntry("line", event.line),
       SerializeEntry("file", event.file) >>

\* The filter of the event-field loop.
event_field_kept(key) == key # "message" /\ key \notin RESERVED_FIELDS

\* eorder: the order in which the event's HashMap yields its keys.
event_field_steps(event, eorder) ==
    LET kept == SelectSeq(eorder, event_field_kept)
    IN [i \in 1..Len(kept) |-> SerializeEntry(kept[i], event.values[kept[i]])]

\* Faulty variant: the notice about a reserved span field is serialized into the
\* formatter's own output instead of going through tracing::debug!.
span_field_step_into_record(key, value) ==
    IF key \notin RESERVED_FIELDS
    THEN SerializeEntry(key, value)
    ELSE SerializeEntry("warning", Str(key))

\* The body of the span-field loop for one (key, value).
span_field_step(key, value) ==
    IF key \notin RESERVED_FIELDS THEN SerializeEntry(key, value) ELSE Debug(key)

\* sorder: the order in which the span's HashMap yields its keys.
span_field_steps(span, sorder) ==
    IF span.active /\ span.has_storage
    THEN [i \in 1..Len(sorder) |-> span_field_step(sorder[i], span.values[sorder[i]])]
    ELSE << >>

format_steps(event, span, eorder, sorder, time) ==
    << SerializeMap >>
    \o serialize_bunyan_core_fields(format_event_message(event), event.level, time)
    \o event_entry(span)
    \o metadata_entries(event)
    \o event_field_steps(event, eorder)
    \o span_field_steps(span, sorder)
    \o << End >>

Fallible(step) == step.op # "debug"
IsDebug(step) == step.op = "debug"

NumFallible(steps) == Len(SelectSeq(steps, Fallible))

\* Index of the call that returns Err when the failAt-th fallible call fails;
\* Len(steps) + 1 when none does (failAt = 0).
FailIndex(steps, failAt) ==
    IF failAt = 0 \/ failAt > NumFallible(steps)
    THEN Len(steps) + 1
    ELSE CHOOSE i \in 1..Len(steps) :
            /\ Fallible(steps[i])
            /\ NumFallible(SubSeq(steps, 1, i)) = failAt

TokenOf(step) ==
    CASE step.op = "serialize_map" -> LBrace
      [] step.op = "serialize_entry" -> Entry(step.key, step.value)
      [] step.op = "end" -> RBrace

\* The format closure: Ok(buffer) or Err, and the notices raised on the way.
format(event, span, eorder, sorder, time, failAt) ==
    LET steps == format_steps(event, span, eorder, sorder, time)
        cut == FailIndex(steps, failAt)
        done == SubSeq(steps, 1, cut - 1)
        ser == SelectSeq(done, Fallible)
        dbg == SelectSeq(done, IsDebug)
    IN [ ok |-> cut > Len(steps),
         buffer |-> IF cut > Len(steps)
                    THEN [i \in 1..Len(ser) |-> TokenOf(ser[i])]
                    ELSE << >>,
         notices |-> [i \in 1..Len(dbg) |-> dbg[i].key] ]

\* Faulty variant: the record and the newline go to the writer in two write_all calls.
emit_in_two_writes(buffer) == << buffer, << NL >> >>

\* Faulty variant: the trailing newline is not appended.
emit_without_newline(buffer) == << buffer >>

\* emit: the write_all calls issued against the writer, in order.
emit(buffer) == << buffer \o << NL >> >>

\* Faulty variant: emit is called whatever the result of format.
on_event_writes_ignoring_err(result) == emit(result.buffer)

\* if let Ok(formatted) = result { let _ = self.emit(formatted); }
on_event_writes(result) == IF result.ok THEN emit(result.buffer) ELSE << >>

\* One write_all on the sink: accepted = Len(buf) is Ok(()), less is Err after
\* `accepted` tokens went through.
write_all(snk, buf, accepted) == snk \o SubSeq(buf, 1, accepted)

\* The writes of one emit against the sink; `?` stops at the first Err.
\* accepted: what the first write_all let through (the later ones, if any, succeed).
RECURSIVE RunWrites(_, _, _)
RunWrites(snk, writes, accepted) ==
    IF writes = << >> THEN snk
    ELSE IF accepted < Len(Head(writes)) THEN write_all(snk, Head(writes), accepted)
    ELSE RunWrites(write_all(snk, Head(writes), Len(Head(writes))), Tail(writes),
                   IF Len(writes) > 1 THEN Len(writes[2]) ELSE 0)

----------------------------------------------------------------------------
(* Inputs *)

\* Every field set over a subset of keys, each key holding one of choices[key].
FieldMaps(keys, choices) ==
    UNION { {f \in [K -> UNION {choices[k] : k \in K}] : \A k \in K : f[k] \in choices[k]}
            : K \in SUBSET keys }

InfoMeta == [target |-> "app::handler", level |-> "Info", line |-> Num(7),
             file |-> Str("src/handler.rs")]
ErrorMeta == [target |-> "app::db", level |-> "Error", line |-> Null, file |-> Null]

EventKeys == {"message", "msg", "event", "status"}
EventChoices ==
    [k \in EventKeys |->
        CASE k = "message" -> {Str("hello"), Num(42)}
          [] k = "msg" -> {Str("caller msg")}
          [] k = "event" -> {Str("caller event")}
          [] k = "status" -> {Num(200)}]

SpanKeys == {"message", "time", "status"}
SpanChoices ==
    [k \in SpanKeys |->
        CASE k = "message" -> {Str("span message")}
          [] k = "time" -> {Str("caller time")}
          [] k = "status" -> {Num(500)}]

MkEvent(m, values) ==
    [target |-> m.target, level |-> m.level, line |-> m.line, file |-> m.file,
     values |-> values]

\* Every event and span over the keys above.
AllEvents == {MkEvent(InfoMeta, f) : f \in FieldMaps(EventKeys, EventChoices)}
AllSpans ==
    {NoSpan, Span("request", FALSE, NoFields)}
    \cup {Span("request", TRUE, f) : f \in FieldMaps(SpanKeys, SpanChoices)}

\* A few events and spans for runs of several calls.
FewEvents ==
    { MkEvent(InfoMeta, [k \in {"message"} |-> Str("hello")]),
      MkEvent(ErrorMeta, [k \in {"status"} |-> Num(200)]) }
FewSpans ==
    { NoSpan, Span("request", TRUE, [k \in {"time"} |-> Str("caller time")]) }

----------------------------------------------------------------------------
(* State machine *)

Threads == 1..NThreads

NoCall ==
    [event |-> MkEvent(InfoMeta, NoFields), span |-> NoSpan, time |-> 0,
     ok |-> FALSE, buffer |-> << >>, raised |-> << >>, writes |-> << >>,
     acquisitions |-> 0, write_ok |-> FALSE, before |-> << >>]

Init ==
    /\ sink = << >>
    /\ notices = << >>
    /\ now = 0
    /\ calls = 0
    /\ last = NoCall
    /\ pc = [t \in Threads |-> "idle"]
    /\ pending = [t \in Threads |-> << >>]
    /\ started = [t \in Threads |-> 0]

\* The clock advances.
Tick ==
    /\ now < MaxClock
    /\ now' = now + 1
    /\ UNCHANGED <<sink, notices, calls, last, pc, pending, started>>

\* One whole on_event call on one thread.
on_event(event, span, eorder, sorder, failAt, accepted) ==
    LET result == format(event, span, eorder, sorder, now, failAt)
        writes == on_event_writes(result)
        after == RunWrites(sink, writes, accepted)
    IN /\ sink' = after
       /\ notices' = notices \o result.notices
       /\ calls' = calls + 1
       /\ last' = [event |-> event, span |-> span, time |-> now,
                   ok |-> result.ok, buffer |-> result.buffer,
                   raised |-> result.notices, writes |-> writes,
                   acquisitions |-> Len(writes),
                   write_ok |-> writes # << >> /\ accepted = Len(Head(writes)),
                   before |-> sink]
       /\ UNCHANGED <<now, pc, pending, started>>

OnEventFrom(events, spans) ==
    \E event \in events, span \in spans :
      \E eorder \in Orders(DOMAIN event.values), sorder \in Orders(DOMAIN span.values) :
        \E failAt \in 0..NumFallible(format_steps(event, span, eorder, sorder, now)) :
          LET writes == on_event_writes(format(event, span, eorder, sorder, now, failAt))
          IN \E accepted \in 0..(IF writes = << >> THEN 0 ELSE Len(Head(writes))) :
               on_event(event, span, eorder, sorder, failAt, accepted)

\* Runs of up to MaxEvents calls.
OnEvent == calls < MaxEvents /\ OnEventFrom(FewEvents, FewSpans)

Next == OnEvent
Spec == Init /\ [][Next]_vars

\* One call on any event and span.
OnEventOnce == calls = 0 /\ OnEventFrom(AllEvents, AllSpans)

NextRecord == OnEventOnce \/ Tick
SpecRecord == Init /\ [][NextRecord]_vars

----------------------------------------------------------------------------
(* Threads calling on_event concurrently against the one sink; every
   serialization and every write succeeds. *)

ThreadEvent(t, j) ==
    MkEvent(InfoMeta, [k \in {"message"} |-> Str("t" \o ToString(t) \o "e" \o ToString(j))])
ThreadSpan(t) ==
    IF t % 2 = 0 THEN Span("worker", TRUE, [k \in {"thread"} |-> Num(t)]) ELSE NoSpan

\* on_event up to the call of emit: everything here is local to the thread.
T_on_event(t) ==
    /\ pc[t] = "idle"
    /\ started[t] < MPerThread
    /\ \E sorder \in Orders(DOMAIN ThreadSpan(t).values) :
         LET result == format(ThreadEvent(t, started[t] + 1), ThreadSpan(t),
                              << "message" >>, sorder, now, 0)
         IN /\ pending' = [pending EXCEPT ![t] = on_event_writes(result)]
            /\ notices' = notices \o result.notices
    /\ started' = [started EXCEPT ![t] = @ + 1]
    /\ pc' = [pc EXCEPT ![t] = "emit"]
    /\ calls' = calls + 1
    /\ UNCHANGED <<sink, now, last>>

\* make_writer().write_all(&buffer) for the next buffer emit writes.
T_write_all(t) ==
    /\ pc[t] = "emit"
    /\ pending[t] # << >>
    /\ sink' = write_all(sink, Head(pending[t]), Len(Head(pending[t])))
    /\ pending' = [pending EXCEPT ![t] = Tail(@)]
    /\ UNCHANGED <<notices, now, calls, last, pc, started>>

\* on_event returns.
T_return(t) ==
    /\ pc[t] = "emit"
    /\ pending[t] = << >>
    /\ pc' = [pc EXCEPT ![t] = "idle"]
    /\ UNCHANGED <<sink, notices, now, calls, last, pending, started>>

NextConc == \E t \in Threads : T_on_event(t) \/ T_write_all(t) \/ T_return(t)
SpecConc == Init /\ [][NextConc]_vars

----------------------------------------------------------------------------
(* Reading the sink back: lines and JSON objects *)

Max(S) == CHOOSE x \in S : \A y \in S : y <= x

\* Positions of the newline tokens.
NLPos(s) == {i \in 1..Len(s) : s[i].tok = "\n"}

\* The line that ends at newline position p, newline included.
Line(s, p) == SubSeq(s, Max({q \in NLPos(s) : q < p} \cup {0}) + 1, p)

\* What follows the last newline.
Trailing(s) == SubSeq(s, Max(NLPos(s) \cup {0}) + 1, Len(s))

\* A line that parses as one JSON object: brace, entries, brace, newline.
IsObjectLine(l) ==
    /\ Len(l) >= 3
    /\ l[1].tok = "{"
    /\ l[Len(l) - 1].tok = "}"
    /\ l[Len(l)].tok = "\n"
    /\ \A i \in 2..(Len(l) - 2) : l[i].tok = "entry"

IsEntry(tk) == tk.tok = "entry"
Entries(buf) == SelectSeq(buf, IsEntry)
KeyCount(e, k) == Cardinality({i \in 1..Len(e) : e[i].key = k})
Range(f) == {f[i] : i \in DOMAIN f}

ReservedNames == {"msg", "level", "time"}
SeverityLabel ==
    [l \in {"Error", "Warn", "Info", "Debug", "Trace"} |->
        CASE l = "Error" -> "ERROR" [] l = "Warn" -> "WARN" [] l = "Info" -> "INFO"
          [] l = "Debug" -> "DEBUG" [] l = "Trace" -> "TRACE"]

Formatted == calls > 0 /\ last.ok
SpanFields == IF last.span.active /\ last.span.has_storage THEN last.span.values ELSE NoFields

----------------------------------------------------------------------------
(* Claims *)

ConcDone == \A t \in Threads : pc[t] = "idle" /\ started[t] = MPerThread
ExpectedLine(t, j) ==
    LET sorder == CHOOSE o \in Orders(DOMAIN ThreadSpan(t).values) : TRUE
    IN format(ThreadEvent(t, j), ThreadSpan(t), << "message" >>, sorder, now, 0).buffer
       \o << NL >>
ThreadEvents == Threads \X (1..MPerThread)

C2_ReservedOnlyCore ==
    Formatted =>
      LET e == Entries(last.buffer)
          ev == last.event.values
      IN /\ \A k \in ReservedNames : KeyCount(e, k) = 1
         /\ e[1].key = "msg" /\ e[2].key = "level" /\ e[3].key = "time"
         /\ e[1].value \in {Str(last.event.target)}
                \cup (IF "message" \in DOMAIN ev THEN {ev["message"]} ELSE {})
         /\ e[2].value = Str(SeverityLabel[last.event.level])
         /\ e[3].value = Str(to_rfc3339(last.time))
         /\ \A k \in ReservedNames :
              /\ k \in DOMAIN ev => Entry(k, ev[k]) \notin Range(e)
              /\ k \in DOMAIN last.span.values => Entry(k, last.span.values[k]) \notin Range(e)

\* An event field msg and a span field time were supplied, and the record was written.
C2_Witness ==
    /\ Formatted /\ last.write_ok
    /\ "msg" \in DOMAIN last.event.values
    /\ last.span.active /\ "time" \in DOMAIN last.span.values

C5_EveryDropNoticed ==
    Formatted =>
      \A k \in ReservedNames :
         /\ k \in DOMAIN last.event.values => k \in Range(last.raised)
         /\ k \in DOMAIN SpanFields => k \in Range(last.raised)

C7_SinkLinesComplete ==
    /\ Trailing(sink) = << >>
    /\ \A p \in NLPos(sink) : IsObjectLine(Line(sink, p))

\* C8: for a record that is emitted the writer is obtained once and written to
\* once, with the whole JSON object followed by one newline; the sink receives
\* nothing but what that write lets through, and nothing when serialization fails.
C8_OneWriteOfWholeRecord ==
    calls > 0 =>
      /\ last.ok =>
           /\ last.acquisitions = 1
           /\ Len(last.writes) = 1
           /\ last.writes[1] = last.buffer \o << NL >>
           /\ IsObjectLine(last.writes[1])
           /\ NLPos(last.writes[1]) = {Len(last.writes[1])}
           /\ last.write_ok => sink = last.before \o last.writes[1]
           /\ \E n \in 0..Len(last.writes[1]) :
                 sink = last.before \o SubSeq(last.writes[1], 1, n)
      /\ ~last.ok => sink = last.before

\* The second call of a run emitted its record and the write went through.
C8_Witness ==
    /\ calls = 2
    /\ last.ok /\ last.write_ok
    /\ last.before # << >>

C10_KeysUnique ==
    Formatted =>
      LET e == Entries(last.buffer)
      IN \A i, j \in 1..Len(e) : i # j => e[i].key # e[j].key

====
